---- MODULE Spec2Model ----
(***************************************************************************)
(* logFUSE: a logging passthrough filesystem for FUSE (src/logfuse.cpp).   *)
(*                                                                         *)
(* Two parts of the program carry state or ordering decisions:             *)
(*   - the directory cursor kept in logfuse_dir_info, driven by            *)
(*     logfuse_opendir / logfuse_readdir / logfuse_releasedir;             *)
(*   - the batched attribute update of logfuse_setattr_x and               *)
(*     logfuse_fsetattr_x, which ends in RETURN_FUSE_ERRNO.                *)
(* SpecDir is the state machine of the first, SpecAttr of the second.      *)
(* SpecCursors runs the directory cursor on two handle slots at once, and  *)
(* SpecFile is the dispatcher's forwarding operations on file handles.     *)
(***************************************************************************)
EXTENDS Integers, Sequences, FiniteSets, TLC

VARIABLES
    nEntries,       \* number of entries of the directory on disk
    slots,          \* the fuse_file_info handle slots the framework uses
    fh,             \* fuse_file_info::fh of every slot
    streams,        \* the DIR streams of the C library: open flag, position
    errno,          \* the process-global errno
    ret,            \* value returned by the last operation
    prevRead,       \* per slot: the logfuse_readdir call before the last one
    lastRead,       \* per slot: the last logfuse_readdir call
    paged,          \* per slot: entries the filler accepted since opendir
    theAttributes,  \* setattr_x::valid, the selector bits of the request
    nativeFails,    \* native calls of the request that the OS makes fail
    applied,        \* attributes of the file changed by native calls
    lastApply,      \* the last logfuse_(f)setattr_x call
    traced,         \* slots whose readdir history (prevRead, paged) is kept
    alone,          \* per slot: cursor and stream as if no other slot existed
    fds,            \* the open file descriptors of the process
    lastOp          \* the last dispatcher operation: calls made, records logged

vars == <<nEntries, slots, fh, streams, errno, ret, prevRead, lastRead, paged,
          theAttributes, nativeFails, applied, lastApply, traced, alone, fds,
          lastOp>>

dirVars  == <<nEntries, slots, fh, streams, prevRead, lastRead, paged, traced,
              alone>>
attrVars == <<theAttributes, nativeFails, applied, lastApply>>
fileVars == <<fds, lastOp>>

-----------------------------------------------------------------------------
(* Bounds *)

MaxEntries == 3
MaxStreams == 2
MaxFds     == 3

Handles   == {1, 2}
StreamIds == 1 .. MaxStreams
Caps      == 0 .. MaxEntries
FdIds     == 1 .. MaxFds

-----------------------------------------------------------------------------
(* errno values *)

ENOENT == 2
ENOMEM == 12
EINTR  == 4
EACCES == 13
EBADF  == 9
ENOTSUP == 45

ESTALE == 70

NoErrno == 0

\* errno as the log sink may leave it: vsprintf and os_log/syslog are library
\* calls, free to modify errno
LogSinkErrnos == {EINTR}

\* logfuse_log: formats with vsprintf and hands the text to os_log / syslog;
\* errno is kept or left at whatever those calls set
logfuse_log(e) == {e} \cup LogSinkErrnos

-----------------------------------------------------------------------------
(* The C library's directory stream *)

Names == <<"a", "b", "c", "d", "e", "f">>

NoEntry == 0

\* d_name of the i-th dirent of the stream
DName(i) == Names[i]

\* telldir: the token of a stream position; 0 at the start of the stream,
\* otherwise opaque and not increasing with the position
telldir(pos) == (pos * 3) % 7

\* seekdir: the stream position a token stands for
seekdir(offset) == CHOOSE p \in 0 .. 6 : telldir(p) = offset

\* readdir: the next dirent and the advanced position, or nullptr at the end
readdir(pos, n) ==
    IF pos < n THEN [entry |-> pos + 1, pos |-> pos + 1]
               ELSE [entry |-> NoEntry, pos |-> pos]

\* the tokens telldir can return on a directory of n entries
ValidOffsets(n) == {telldir(p) : p \in 0 .. n}

-----------------------------------------------------------------------------
(* Handle slots *)

NoHandle == [kind |-> "none"]

\* logfuse_dir_info as set up by logfuse_opendir
NewDirInfo(dir) == [kind |-> "dir", dir |-> dir, entry |-> NoEntry, offset |-> 0]

NoRead == [called |-> FALSE]

\* no cursor on the slot
NoAlone == [info |-> NoHandle, pos |-> 0]

\* no operation dispatched yet
NoOp == [op |-> "none"]

NewPaged == [ok |-> TRUE, done |-> FALSE, next |-> 0, acc |-> <<>>]

-----------------------------------------------------------------------------
(* logfuse_readdir *)

\* "Seek to the entry": reposition when the requested offset is not the
\* cursor's
Mut_SeekToEntry(info, pos, offset) ==
    IF offset # info.offset
      THEN [info |-> [info EXCEPT !.offset = offset], pos |-> seekdir(offset)]
      ELSE [info |-> info, pos |-> pos]

SeekToEntry(info, pos, offset) ==
    IF offset # info.offset
      THEN [info |-> [info EXCEPT !.entry = NoEntry, !.offset = offset],
            pos  |-> seekdir(offset)]
      ELSE [info |-> info, pos |-> pos]

\* filler: nonzero when the buffer is full; the buffer has room for cap entries
filler(cap, count) == count >= cap

\* the break taken when filler reports a full buffer: the entry stays cached
Mut_FillerStopped(info, entry) == [info EXCEPT !.entry = NoEntry]

Mut_FillerStoppedAdvanced(info, entry) ==
    [info EXCEPT !.entry = entry, !.offset = telldir(entry)]

FillerStopped(info, entry) == [info EXCEPT !.entry = entry]

\* "Update our state" after filler took the entry
Mut_UpdateState(info, nextOffset) == [info EXCEPT !.entry = NoEntry]

UpdateState(info, nextOffset) ==
    [info EXCEPT !.entry = NoEntry, !.offset = nextOffset]

\* the while (true) loop
RECURSIVE ReadLoop(_, _, _, _, _)
ReadLoop(info, pos, n, cap, offered) ==
    LET rd == IF info.entry = NoEntry
                THEN readdir(pos, n)
                ELSE [entry |-> info.entry, pos |-> pos]
    IN  IF rd.entry = NoEntry
          THEN [info    |-> [info EXCEPT !.entry = NoEntry],
                pos     |-> rd.pos,
                offered |-> offered,
                stopped |-> FALSE]
          ELSE LET nextOffset == telldir(rd.pos)
                   off == Append(offered, [entry      |-> rd.entry,
                                           d_name     |-> DName(rd.entry),
                                           nextOffset |-> nextOffset])
               IN  IF filler(cap, Len(offered))
                     THEN [info    |-> FillerStopped(info, rd.entry),
                           pos     |-> rd.pos,
                           offered |-> off,
                           stopped |-> TRUE]
                     ELSE ReadLoop(UpdateState(info, nextOffset), rd.pos, n,
                                   cap, off)

\* the whole handler: cursor, stream position and what filler was offered
ReadDir(info, pos, n, offset, cap) ==
    LET s == SeekToEntry(info, pos, offset)
    IN  ReadLoop(s.info, s.pos, n, cap, <<>>)

\* entries the filler took: all offered ones but the one that found it full
Accepted(r) ==
    IF r.stopped THEN SubSeq(r.offered, 1, Len(r.offered) - 1) ELSE r.offered

DNames(es) == [i \in 1 .. Len(es) |-> es[i].d_name]

\* bookkeeping of a paginated enumeration: every call takes one entry and
\* resumes at the offset delivered with the last entry taken
PagedAfter(p, offset, cap, r) ==
    IF p.ok /\ ~p.done /\ cap = 1 /\ offset = p.next
      THEN [ok   |-> TRUE,
            done |-> ~r.stopped,
            next |-> IF Len(Accepted(r)) > 0
                       THEN Accepted(r)[Len(Accepted(r))].nextOffset
                       ELSE p.next,
            acc  |-> p.acc \o DNames(Accepted(r))]
      ELSE [p EXCEPT !.ok = FALSE]

-----------------------------------------------------------------------------
(* The batched attribute update: logfuse_setattr_x, logfuse_fsetattr_x *)

\* the native calls of an update, in the order the code makes them; uid and
\* gid share the ownership call
FieldOrder ==
    <<"mode", "own", "size", "acctime", "modtime", "crtime", "chgtime",
      "bkuptime", "flags">>

Steps == {FieldOrder[i] : i \in 1 .. Len(FieldOrder)}

StepIndex(step) == CHOOSE i \in 1 .. Len(FieldOrder) : FieldOrder[i] = step

\* the bits of setattr_x::valid
Bits ==
    {"MODE", "UID", "GID", "SIZE", "ACCTIME", "MODTIME", "CRTIME", "CHGTIME",
     "BKUPTIME", "FLAGS"}

\* the selector bits that make the code take a step
BitsOf(step) ==
    CASE step = "mode"     -> {"MODE"}
      [] step = "own"      -> {"UID", "GID"}
      [] step = "size"     -> {"SIZE"}
      [] step = "acctime"  -> {"ACCTIME"}
      [] step = "modtime"  -> {"MODTIME"}
      [] step = "crtime"   -> {"CRTIME"}
      [] step = "chgtime"  -> {"CHGTIME"}
      [] step = "bkuptime" -> {"BKUPTIME"}
      [] step = "flags"    -> {"FLAGS"}

StepsOf(attrs) == {step \in Steps : BitsOf(step) \cap attrs # {}}

SETATTR_WANTS_MODE(attrs)     == "MODE" \in attrs
SETATTR_WANTS_UID(attrs)      == "UID" \in attrs

Mut_SETATTR_WANTS_GID(attrs)  == "UID" \in attrs

SETATTR_WANTS_GID(attrs)      == "GID" \in attrs

SETATTR_WANTS_SIZE(attrs)     == "SIZE" \in attrs
SETATTR_WANTS_ACCTIME(attrs)  == "ACCTIME" \in attrs
SETATTR_WANTS_MODTIME(attrs)  == "MODTIME" \in attrs
SETATTR_WANTS_CRTIME(attrs)   == "CRTIME" \in attrs
SETATTR_WANTS_CHGTIME(attrs)  == "CHGTIME" \in attrs
SETATTR_WANTS_BKUPTIME(attrs) == "BKUPTIME" \in attrs

Mut_SETATTR_WANTS_FLAGS(attrs) == TRUE

SETATTR_WANTS_FLAGS(attrs)    == "FLAGS" \in attrs

\* the values carried by the request
Request ==
    [mode |-> 420, uid |-> 501, gid |-> 20, size |-> 0, acctime |-> 1,
     modtime |-> 2, crtime |-> 3, chgtime |-> 4, bkuptime |-> 5, flags |-> 0]

\* errno a failing native call of the step leaves; one value per step
NativeErrno(step) == 20 + StepIndex(step)

\* values an int that was never assigned can hold
Indeterminate == {-1, 0, 7}

\* a native call: result -1 and errno set on failure, 0 on success
Native(st, fn, step, args, fails) ==
    [sysErr |-> IF step \in fails THEN -1 ELSE 0,
     errno  |-> IF step \in fails THEN NativeErrno(step) ELSE st.errno,
     calls  |-> Append(st.calls, [fn |-> fn, step |-> step, args |-> args,
                                  failed |-> step \in fails]),
     done   |-> st.done]

\* logfuse_set_timespec / logfuse_fset_timespec: one attribute through
\* setattrlist / fsetattrlist, result handed back as is
logfuse_set_timespec(st, step, theTime, fails) ==
    Native(st, "setattrlist", step, <<theTime>>, fails)

logfuse_fset_timespec(st, step, theTime, fails) ==
    Native(st, "fsetattrlist", step, <<theTime>>, fails)

\* "if (sysErr == -1) goto done;"
GotoDoneIfFailed(c) == [c EXCEPT !.done = (c.sysErr = -1)]

\* "if (sysErr != -1) goto done;"
GotoDoneUnlessFailed(c) == [c EXCEPT !.done = (c.sysErr # -1)]

\* the element of a set of one element; a block of the update is written
\* Only({... s ... : s \in {previous}}), s being the locals before the block
Only(S) == CHOOSE r \in S : TRUE

\* a local int without initialiser, no call made, nothing at done yet
Entry(uninit, e0) ==
    [sysErr |-> uninit, errno |-> e0, calls |-> <<>>, done |-> FALSE]

\* the body of logfuse_setattr_x down to the label done
SetattrX(attrs, fails, uninit, e0) ==
    LET s0 == Entry(uninit, e0)
        s1 == Only({IF ~s.done /\ SETATTR_WANTS_MODE(attrs)
                  THEN GotoDoneIfFailed(
                       Native(s, "lchmod", "mode", <<Request.mode>>, fails))
                  ELSE s : s \in {s0}})
        s2 == Only({IF ~s.done /\ (SETATTR_WANTS_UID(attrs) \/ SETATTR_WANTS_GID(attrs))
                  THEN GotoDoneIfFailed(
                       Native(s, "lchown", "own",
                              <<IF SETATTR_WANTS_UID(attrs) THEN Request.uid ELSE -1,
                                IF SETATTR_WANTS_GID(attrs) THEN Request.gid ELSE -1>>,
                              fails))
                  ELSE s : s \in {s1}})
        s3 == Only({IF ~s.done /\ SETATTR_WANTS_SIZE(attrs)
                  THEN GotoDoneUnlessFailed(
                       Native(s, "truncate", "size", <<Request.size>>, fails))
                  ELSE s : s \in {s2}})
        s4 == Only({IF ~s.done /\ SETATTR_WANTS_ACCTIME(attrs)
                  THEN GotoDoneUnlessFailed(
                       logfuse_set_timespec(s, "acctime", Request.acctime, fails))
                  ELSE s : s \in {s3}})
        s5 == Only({IF ~s.done /\ SETATTR_WANTS_MODTIME(attrs)
                  THEN GotoDoneUnlessFailed(
                       logfuse_set_timespec(s, "modtime", Request.modtime, fails))
                  ELSE s : s \in {s4}})
        s6 == Only({IF ~s.done /\ SETATTR_WANTS_CRTIME(attrs)
                  THEN GotoDoneUnlessFailed(
                       logfuse_set_timespec(s, "crtime", Request.crtime, fails))
                  ELSE s : s \in {s5}})
        s7 == Only({IF ~s.done /\ SETATTR_WANTS_CHGTIME(attrs)
                  THEN GotoDoneUnlessFailed(
                       logfuse_set_timespec(s, "chgtime", Request.chgtime, fails))
                  ELSE s : s \in {s6}})
        s8 == Only({IF ~s.done /\ SETATTR_WANTS_BKUPTIME(attrs)
                  THEN GotoDoneUnlessFailed(
                       logfuse_set_timespec(s, "bkuptime", Request.bkuptime, fails))
                  ELSE s : s \in {s7}})
        s9 == Only({IF ~s.done /\ SETATTR_WANTS_FLAGS(attrs)
                  THEN GotoDoneUnlessFailed(
                       Native(s, "lchflags", "flags", <<Request.flags>>, fails))
                  ELSE s : s \in {s8}})
    IN  s9

\* logfuse_fsetattr_x with the check after ftruncate written as the one after
\* fchmod
Mut_FSetattrX(attrs, fails, uninit, e0) ==
    LET s0 == Entry(uninit, e0)
        s1 == Only({IF ~s.done /\ SETATTR_WANTS_MODE(attrs)
                  THEN GotoDoneIfFailed(
                       Native(s, "fchmod", "mode", <<Request.mode>>, fails))
                  ELSE s : s \in {s0}})
        s2 == Only({IF ~s.done /\ (SETATTR_WANTS_UID(attrs) \/ SETATTR_WANTS_GID(attrs))
                  THEN GotoDoneIfFailed(
                       Native(s, "fchown", "own",
                              <<IF SETATTR_WANTS_UID(attrs) THEN Request.uid ELSE -1,
                                IF SETATTR_WANTS_GID(attrs) THEN Request.gid ELSE -1>>,
                              fails))
                  ELSE s : s \in {s1}})
        s3 == Only({IF ~s.done /\ SETATTR_WANTS_SIZE(attrs)
                  THEN GotoDoneIfFailed(
                       Native(s, "ftruncate", "size", <<Request.size>>, fails))
                  ELSE s : s \in {s2}})
        s4 == Only({IF ~s.done /\ SETATTR_WANTS_ACCTIME(attrs)
                  THEN GotoDoneUnlessFailed(
                       logfuse_fset_timespec(s, "acctime", Request.acctime, fails))
                  ELSE s : s \in {s3}})
        s5 == Only({IF ~s.done /\ SETATTR_WANTS_MODTIME(attrs)
                  THEN GotoDoneUnlessFailed(
                       logfuse_fset_timespec(s, "modtime", Request.modtime, fails))
                  ELSE s : s \in {s4}})
        s6 == Only({IF ~s.done /\ SETATTR_WANTS_CRTIME(attrs)
                  THEN GotoDoneUnlessFailed(
                       logfuse_fset_timespec(s, "crtime", Request.crtime, fails))
                  ELSE s : s \in {s5}})
        s7 == Only({IF ~s.done /\ SETATTR_WANTS_CHGTIME(attrs)
                  THEN GotoDoneUnlessFailed(
                       logfuse_fset_timespec(s, "chgtime", Request.chgtime, fails))
                  ELSE s : s \in {s6}})
        s8 == Only({IF ~s.done /\ SETATTR_WANTS_BKUPTIME(attrs)
                  THEN GotoDoneUnlessFailed(
                       logfuse_fset_timespec(s, "bkuptime", Request.bkuptime, fails))
                  ELSE s : s \in {s7}})
        s9 == Only({IF ~s.done /\ SETATTR_WANTS_FLAGS(attrs)
                  THEN GotoDoneUnlessFailed(
                       Native(s, "fchflags", "flags", <<Request.flags>>, fails))
                  ELSE s : s \in {s8}})
    IN  s9

\* the body of logfuse_fsetattr_x down to the label done
FSetattrX(attrs, fails, uninit, e0) ==
    LET s0 == Entry(uninit, e0)
        s1 == Only({IF ~s.done /\ SETATTR_WANTS_MODE(attrs)
                  THEN GotoDoneIfFailed(
                       Native(s, "fchmod", "mode", <<Request.mode>>, fails))
                  ELSE s : s \in {s0}})
        s2 == Only({IF ~s.done /\ (SETATTR_WANTS_UID(attrs) \/ SETATTR_WANTS_GID(attrs))
                  THEN GotoDoneIfFailed(
                       Native(s, "fchown", "own",
                              <<IF SETATTR_WANTS_UID(attrs) THEN Request.uid ELSE -1,
                                IF SETATTR_WANTS_GID(attrs) THEN Request.gid ELSE -1>>,
                              fails))
                  ELSE s : s \in {s1}})
        s3 == Only({IF ~s.done /\ SETATTR_WANTS_SIZE(attrs)
                  THEN GotoDoneUnlessFailed(
                       Native(s, "ftruncate", "size", <<Request.size>>, fails))
                  ELSE s : s \in {s2}})
        s4 == Only({IF ~s.done /\ SETATTR_WANTS_ACCTIME(attrs)
                  THEN GotoDoneUnlessFailed(
                       logfuse_fset_timespec(s, "acctime", Request.acctime, fails))
                  ELSE s : s \in {s3}})
        s5 == Only({IF ~s.done /\ SETATTR_WANTS_MODTIME(attrs)
                  THEN GotoDoneUnlessFailed(
                       logfuse_fset_timespec(s, "modtime", Request.modtime, fails))
                  ELSE s : s \in {s4}})
        s6 == Only({IF ~s.done /\ SETATTR_WANTS_CRTIME(attrs)
                  THEN GotoDoneUnlessFailed(
                       logfuse_fset_timespec(s, "crtime", Request.crtime, fails))
                  ELSE s : s \in {s5}})
        s7 == Only({IF ~s.done /\ SETATTR_WANTS_CHGTIME(attrs)
                  THEN GotoDoneUnlessFailed(
                       logfuse_fset_timespec(s, "chgtime", Request.chgtime, fails))
                  ELSE s : s \in {s6}})
        s8 == Only({IF ~s.done /\ SETATTR_WANTS_BKUPTIME(attrs)
                  THEN GotoDoneUnlessFailed(
                       logfuse_fset_timespec(s, "bkuptime", Request.bkuptime, fails))
                  ELSE s : s \in {s7}})
        s9 == Only({IF ~s.done /\ SETATTR_WANTS_FLAGS(attrs)
                  THEN GotoDoneUnlessFailed(
                       Native(s, "fchflags", "flags", <<Request.flags>>, fails))
                  ELSE s : s \in {s8}})
    IN  s9

\* RETURN_FUSE_ERRNO: -errno when sysErr is -1, else sysErr
RETURN_FUSE_ERRNO(sysErr, e) == IF sysErr = -1 THEN -e ELSE sysErr

NoApply == [called |-> FALSE]

\* attributes the successful native calls of an update changed
Changed(calls) == {calls[i].step : i \in {j \in 1 .. Len(calls) : ~calls[j].failed}}

\* done: log, then RETURN_FUSE_ERRNO
Done(op, r, uninit, e0, eLog) ==
    /\ errno' = eLog
    /\ ret' = RETURN_FUSE_ERRNO(r.sysErr, eLog)
    /\ applied' = applied \cup Changed(r.calls)
    /\ lastApply' = [called        |-> TRUE,
                     op            |-> op,
                     calls         |-> r.calls,
                     sysErr        |-> r.sysErr,
                     unassigned    |-> r.calls = <<>>,
                     indeterminate |-> IF r.calls = <<>> THEN uninit ELSE 0,
                     errnoIn       |-> e0,
                     errnoSet      |-> r.errno,
                     errnoOut      |-> eLog]

logfuse_setattr_x ==
    /\ ~lastApply.called
    /\ \E uninit \in Indeterminate :
          \E r \in {SetattrX(theAttributes, nativeFails, uninit, errno)} :
              \E eLog \in logfuse_log(r.errno) :
                 Done("setattr_x", r, uninit, errno, eLog)
    /\ UNCHANGED <<dirVars, fileVars, theAttributes, nativeFails>>

logfuse_fsetattr_x ==
    /\ ~lastApply.called
    /\ \E uninit \in Indeterminate :
          \E r \in {FSetattrX(theAttributes, nativeFails, uninit, errno)} :
              \E eLog \in logfuse_log(r.errno) :
                 Done("fsetattr_x", r, uninit, errno, eLog)
    /\ UNCHANGED <<dirVars, fileVars, theAttributes, nativeFails>>

InitAttr ==
    /\ nEntries = 0
    /\ slots = {}
    /\ fh = [h \in Handles |-> NoHandle]
    /\ streams = [d \in StreamIds |-> [open |-> FALSE, pos |-> 0]]
    /\ errno \in {NoErrno, ESTALE}
    /\ ret = 0
    /\ prevRead = [h \in Handles |-> NoRead]
    /\ lastRead = [h \in Handles |-> NoRead]
    /\ paged = [h \in Handles |-> NewPaged]
    /\ theAttributes \in SUBSET Bits
    /\ nativeFails \in SUBSET StepsOf(theAttributes)
    /\ applied = {}
    /\ lastApply = NoApply
    /\ traced = {}
    /\ alone = [h \in Handles |-> NoAlone]
    /\ fds = {}
    /\ lastOp = NoOp

NextAttr ==
    \/ logfuse_setattr_x
    \/ logfuse_fsetattr_x

SpecAttr == InitAttr /\ [][NextAttr]_vars

-----------------------------------------------------------------------------
(* Directory operations *)

\* the DIR the C library hands out: one that is not open
Mut_NewStream == CHOOSE d \in StreamIds : TRUE

NewStream ==
    CHOOSE d \in StreamIds :
        ~streams[d].open /\ \A e \in StreamIds : ~streams[e].open => d <= e

\* opendir(path) succeeding: a stream at the start of the directory
opendir(st, d) == [st EXCEPT ![d] = [open |-> TRUE, pos |-> 0]]

\* closedir(dir): the stream is gone whether or not closedir reports success
Mut_closedir(st, d) == st

closedir(st, d) == [st EXCEPT ![d] = [open |-> FALSE, pos |-> 0]]

\* the errno values a failing opendir leaves
OpendirErrnos == {ENOENT}

\* the branch taken when malloc returns nullptr
Mut_MallocFailed(st, d) == st

MallocFailed(st, d) == closedir(st, d)

logfuse_opendir(h) ==
    /\ fh[h] = NoHandle
    /\ \/ \* opendir fails: errno is copied to sysErr before the log call
          \E sysErr \in OpendirErrnos :
            /\ \E e \in logfuse_log(sysErr) : errno' = e
            /\ ret' = -sysErr
            /\ lastOp' = [op |-> "opendir", slot |-> h, opened |-> FALSE,
                          malloc |-> FALSE, sysErr |-> sysErr]
            /\ UNCHANGED <<fh, streams, prevRead, lastRead, paged, alone>>
       \/ \* opendir succeeds, malloc fails: the stream is closed again
          /\ \E d \in StreamIds : ~streams[d].open
          /\ streams' = MallocFailed(opendir(streams, NewStream), NewStream)
          /\ errno' = ENOMEM
          /\ ret' = -ENOMEM
          /\ lastOp' = [op |-> "opendir", slot |-> h, opened |-> TRUE,
                        malloc |-> FALSE, sysErr |-> 0]
          /\ UNCHANGED <<fh, prevRead, lastRead, paged, alone>>
       \/ \* both succeed
          /\ \E d \in StreamIds : ~streams[d].open
          /\ streams' = opendir(streams, NewStream)
          /\ fh' = [fh EXCEPT ![h] = NewDirInfo(NewStream)]
          /\ \E e \in logfuse_log(errno) : errno' = e
          /\ ret' = 0
          /\ lastOp' = [op |-> "opendir", slot |-> h, opened |-> TRUE,
                        malloc |-> TRUE, sysErr |-> 0]
          /\ prevRead' = [prevRead EXCEPT ![h] = NoRead]
          /\ lastRead' = [lastRead EXCEPT ![h] = NoRead]
          /\ paged' = [paged EXCEPT ![h] = NewPaged]
          /\ alone' = [alone EXCEPT ![h] =
                          [NoAlone EXCEPT !.info = NewDirInfo(NewStream)]]
    /\ UNCHANGED <<nEntries, slots, traced, fds, attrVars>>

logfuse_readdir(h, offset, cap) ==
    /\ fh[h].kind = "dir"
    /\ \E dirInfo \in {fh[h]} :
       \E r \in {ReadDir(dirInfo, streams[dirInfo.dir].pos, nEntries, offset,
                         cap)} :
       \E a \in {ReadDir(alone[h].info, alone[h].pos, nEntries, offset, cap)} :
           /\ fh' = [fh EXCEPT ![h] = r.info]
           /\ streams' = [streams EXCEPT ![dirInfo.dir].pos = r.pos]
           /\ prevRead' = IF h \in traced
                            THEN [prevRead EXCEPT ![h] = lastRead[h]]
                            ELSE prevRead
           /\ lastRead' = IF h \in traced
                            THEN [lastRead EXCEPT ![h] =
                                     [called  |-> TRUE,
                                      sought  |-> offset # dirInfo.offset,
                                      offset  |-> offset,
                                      cap     |-> cap,
                                      offered |-> r.offered,
                                      stopped |-> r.stopped]]
                            ELSE lastRead
           /\ paged' = IF h \in traced
                         THEN [paged EXCEPT ![h] =
                                  PagedAfter(paged[h], offset, cap, r)]
                         ELSE paged
           /\ alone' = [alone EXCEPT ![h] = [info |-> a.info, pos |-> a.pos]]
           /\ lastOp' = [op      |-> "readdir",
                         slot    |-> h,
                         cached  |-> dirInfo.entry,
                         emitted |-> Accepted(r),
                         stopped |-> r.stopped,
                         emittedAlone |-> Accepted(a),
                         stoppedAlone |-> a.stopped]
           \* the log call is made only on the break after a full buffer
           /\ \E e \in (IF r.stopped THEN logfuse_log(errno) ELSE {errno}) :
                 errno' = e
    /\ ret' = 0
    /\ UNCHANGED <<nEntries, slots, traced, fds, attrVars>>

\* the errno values a failing closedir leaves
ClosedirErrnos == {EINTR}

logfuse_releasedir(h) ==
    /\ fh[h].kind = "dir"
    /\ streams' = closedir(streams, fh[h].dir)
    /\ fh' = [fh EXCEPT ![h] = NoHandle]
    /\ alone' = [alone EXCEPT ![h] = NoAlone]
    /\ \E failed \in BOOLEAN :
          /\ \E e \in logfuse_log(errno) :
                \E c \in (IF failed THEN ClosedirErrnos ELSE {e}) : errno' = c
          /\ lastOp' = [op |-> "releasedir", slot |-> h, dir |-> fh[h].dir,
                        wasOpen |-> streams[fh[h].dir].open,
                        failed  |-> failed]
    /\ ret' = 0
    /\ UNCHANGED <<nEntries, slots, prevRead, lastRead, paged, traced, fds,
                   attrVars>>

\* fsyncdir: logs and reports success
logfuse_fsyncdir(h) ==
    /\ fh[h].kind = "dir"
    /\ \E e \in logfuse_log(errno) : errno' = e
    /\ ret' = 0
    /\ lastOp' = [op |-> "fsyncdir", slot |-> h]
    /\ UNCHANGED <<dirVars, fds, attrVars>>

-----------------------------------------------------------------------------
(* The directory cursor state machine *)

InitDir ==
    /\ nEntries \in 0 .. MaxEntries
    /\ slots = {1}
    /\ fh = [h \in Handles |-> NoHandle]
    /\ streams = [d \in StreamIds |-> [open |-> FALSE, pos |-> 0]]
    /\ errno = NoErrno
    /\ ret = 0
    /\ prevRead = [h \in Handles |-> NoRead]
    /\ lastRead = [h \in Handles |-> NoRead]
    /\ paged = [h \in Handles |-> NewPaged]
    /\ theAttributes = {}
    /\ nativeFails = {}
    /\ applied = {}
    /\ lastApply = NoApply
    /\ traced = slots
    /\ alone = [h \in Handles |-> NoAlone]
    /\ fds = {}
    /\ lastOp = NoOp

NextDir ==
    \/ \E h \in slots : logfuse_opendir(h)
    \/ \E h \in slots : \E offset \in ValidOffsets(nEntries) : \E cap \in Caps :
          logfuse_readdir(h, offset, cap)
    \/ \E h \in slots : logfuse_releasedir(h)

SpecDir == InitDir /\ [][NextDir]_vars

-----------------------------------------------------------------------------
(* Two directory handles in use at once; the framework dispatches the   *)
(* operations of different handles in any order                         *)

MaxListed == 2

InitCursors ==
    /\ nEntries \in 1 .. MaxListed
    /\ slots = Handles
    /\ fh = [h \in Handles |-> NoHandle]
    /\ streams = [d \in StreamIds |-> [open |-> FALSE, pos |-> 0]]
    /\ errno = NoErrno
    /\ ret = 0
    /\ prevRead = [h \in Handles |-> NoRead]
    /\ lastRead = [h \in Handles |-> NoRead]
    /\ paged = [h \in Handles |-> NewPaged]
    /\ theAttributes = {}
    /\ nativeFails = {}
    /\ applied = {}
    /\ lastApply = NoApply
    /\ traced = {}
    /\ alone = [h \in Handles |-> NoAlone]
    /\ fds = {}
    /\ lastOp = NoOp

NextCursors ==
    \/ \E h \in slots : logfuse_opendir(h)
    \/ \E h \in slots : \E offset \in ValidOffsets(nEntries) :
          \E cap \in 0 .. nEntries : logfuse_readdir(h, offset, cap)
    \/ \E h \in slots : logfuse_releasedir(h)
    \/ \E h \in slots : logfuse_fsyncdir(h)

SpecCursors == InitCursors /\ [][NextCursors]_vars

-----------------------------------------------------------------------------
(* Properties of the directory cursor *)

\* d_name of the entries i .. n of the directory, in stream order
EntriesFrom(i, n) == [j \in 1 .. (n + 1 - i) |-> DName(i + j - 1)]

\* the offset a caller resumes at after taking k entries
ResumeOffset(r) ==
    IF Len(Accepted(r)) = 0 THEN 0 ELSE Accepted(r)[Len(Accepted(r))].nextOffset

\* a read at offset 0 that took k entries and then found the buffer full,
\* followed by a read at the offset delivered with the k-th entry
Resumed(h) ==
    /\ prevRead[h].called /\ lastRead[h].called
    /\ prevRead[h].offset = 0 /\ prevRead[h].stopped
    /\ lastRead[h].offset = ResumeOffset(prevRead[h])
    /\ ~lastRead[h].stopped

\* C1: resume correctness. When a read from offset 0 took k entries before the
\* filler reported a full buffer, the next read on the cursor, asked for the
\* offset delivered with the k-th entry (0 when k = 0) and never stopped, is
\* offered exactly the entries k+1 .. N in stream order.
C1_ResumeCorrectness ==
    \A h \in Handles :
        Resumed(h) =>
            DNames(lastRead[h].offered) =
                EntriesFrom(Len(Accepted(prevRead[h])) + 1, nEntries)

C1_Witness ==
    \E h \in Handles :
        /\ Resumed(h)
        /\ Len(Accepted(prevRead[h])) = 1
        /\ DNames(lastRead[h].offered) = <<"b", "c">>

\* C7 as stated: after opendir and after every readdir the cursor's offset is
\* the position of the stream.
C7_OffsetIsStreamPosition ==
    \A h \in Handles :
        fh[h].kind = "dir" =>
            fh[h].offset = telldir(streams[fh[h].dir].pos)

\* C7 amended: the cursor's offset is the position of the stream after opendir
\* and after a readdir that ran to the end of the stream; after a readdir
\* that ended on a full buffer an entry is cached, the cursor's offset is the
\* position before that entry and the stream stands at the nextOffset that
\* was passed to filler with it.
C7_OffsetAndStreamPosition ==
    \A h \in Handles :
        fh[h].kind = "dir" =>
            LET info == fh[h]
                pos  == streams[info.dir].pos
                last == lastRead[h]
            IN  IF last.called /\ last.stopped
                  THEN /\ info.entry # NoEntry
                       /\ info.entry = pos
                       /\ info.offset = telldir(pos - 1)
                       /\ telldir(pos) = last.offered[Len(last.offered)].nextOffset
                  ELSE /\ info.entry = NoEntry
                       /\ info.offset = telldir(pos)

C7_Witness ==
    \E h \in Handles :
        /\ fh[h].kind = "dir"
        /\ lastRead[h].called /\ lastRead[h].stopped
        /\ Len(lastRead[h].offered) >= 2
        /\ fh[h].offset # telldir(streams[fh[h].dir].pos)

\* what one readdir at offset 0 on a freshly opened cursor hands over when
\* filler never reports a full buffer
SinglePass == ReadDir(NewDirInfo(1), 0, nEntries, 0, nEntries)

\* C8: pagination equivalence. Enumerating a freshly opened cursor by reads
\* that each take one entry, resumed at the offset delivered with the entry
\* taken last, hands over the entries of a single uninterrupted read, each
\* exactly once.
C8_PaginationEquivalence ==
    \A h \in Handles :
        (paged[h].ok /\ paged[h].done) =>
            /\ ~SinglePass.stopped
            /\ paged[h].acc = DNames(SinglePass.offered)
            /\ Len(paged[h].acc) = nEntries
            /\ \A i, j \in 1 .. Len(paged[h].acc) :
                  paged[h].acc[i] = paged[h].acc[j] => i = j

C8_Witness ==
    \E h \in Handles :
        /\ paged[h].ok /\ paged[h].done
        /\ nEntries >= 3
        /\ Len(paged[h].acc) = nEntries

\* two reads in a row at the same offset, both stopped at the first entry
Repeated(h) ==
    /\ prevRead[h].called /\ lastRead[h].called
    /\ prevRead[h].offset = lastRead[h].offset
    /\ prevRead[h].cap = 0 /\ lastRead[h].cap = 0

\* C9: reposition idempotence. Two reads in a row at the same offset whose
\* filler reports a full buffer on the first entry are offered the same
\* entry with the same nextOffset.
C9_RepositionIdempotence ==
    \A h \in Handles :
        Repeated(h) => prevRead[h].offered = lastRead[h].offered

C9_Witness ==
    \E h \in Handles :
        /\ Repeated(h)
        /\ prevRead[h].sought /\ prevRead[h].offset # 0
        /\ Len(lastRead[h].offered) = 1

-----------------------------------------------------------------------------
(* Properties of the attribute update *)

StepSeq(calls) == [i \in 1 .. Len(calls) |-> calls[i].step]

AnyFailed(calls) == \E i \in 1 .. Len(calls) : calls[i].failed

FirstFailed(calls) ==
    calls[CHOOSE i \in 1 .. Len(calls) :
            calls[i].failed /\ \A j \in 1 .. (i - 1) : ~calls[j].failed]

Attempted(calls) == {calls[i].step : i \in 1 .. Len(calls)}

\* C2 as stated: stop on first failure. Once the native call of a selected
\* field fails, no native call is made for a later field; a failed call is
\* the last call of the update.
C2_StopOnFirstFailure ==
    lastApply.called =>
        \A i \in 1 .. Len(lastApply.calls) :
            lastApply.calls[i].failed => i = Len(lastApply.calls)

\* C3 as stated: when an attempted field fails, the update returns the negated
\* errno of the first field that failed.
C3_ResultIsFirstFailure ==
    (lastApply.called /\ AnyFailed(lastApply.calls)) =>
        ret = -NativeErrno(FirstFailed(lastApply.calls).step)

\* C4 as stated: with a selector that is not empty and every native call made
\* succeeding, the update returns 0 only when a native call was made for every
\* selected field.
C4_CompleteOnSuccess ==
    (/\ lastApply.called
     /\ theAttributes # {}
     /\ ~AnyFailed(lastApply.calls)
     /\ ret = 0) =>
        Attempted(lastApply.calls) = StepsOf(theAttributes)

\* C5 as stated: when the ownership call fails after the mode call, if any,
\* succeeded, the mode change stays applied, no later field is attempted and
\* the negated errno of the ownership call is returned; when the mode call
\* fails nothing else is attempted and its negated errno is returned.
C5_EarlyFieldFailure ==
    lastApply.called =>
        /\ ("mode" \in StepsOf(theAttributes) /\ "mode" \in nativeFails) =>
              /\ StepSeq(lastApply.calls) = <<"mode">>
              /\ ret = -NativeErrno("mode")
        /\ ("own" \in StepsOf(theAttributes) /\ "own" \in nativeFails
              /\ "mode" \notin nativeFails) =>
              /\ "mode" \in StepsOf(theAttributes) => "mode" \in applied
              /\ Attempted(lastApply.calls) \subseteq {"mode", "own"}
              /\ "own" \in Attempted(lastApply.calls)
              /\ ret = -NativeErrno("own")

\* C6: fixed field order. The native calls of an update are made in the order
\* mode, ownership, size, access, modify, create, change, backup time, flags;
\* no field is attempted twice and none without one of its selector bits.
C6_FixedFieldOrder ==
    lastApply.called =>
        /\ \A i, j \in 1 .. Len(lastApply.calls) :
              i < j => StepIndex(lastApply.calls[i].step)
                         < StepIndex(lastApply.calls[j].step)
        /\ \A i \in 1 .. Len(lastApply.calls) :
              BitsOf(lastApply.calls[i].step) \cap theAttributes # {}

C6_Witness ==
    /\ lastApply.called
    /\ StepSeq(lastApply.calls) = <<"own", "size", "modtime", "flags">>
    /\ "FLAGS" \in theAttributes /\ "MODE" \notin theAttributes

\* the native primitive of each step, by path and by descriptor
PathPrimitive(step) ==
    CASE step = "mode"  -> "lchmod"
      [] step = "own"   -> "lchown"
      [] step = "size"  -> "truncate"
      [] step = "flags" -> "lchflags"
      [] OTHER          -> "setattrlist"

HandlePrimitive(step) ==
    CASE step = "mode"  -> "fchmod"
      [] step = "own"   -> "fchown"
      [] step = "size"  -> "ftruncate"
      [] step = "flags" -> "fchflags"
      [] OTHER          -> "fsetattrlist"

\* a call sequence without the name of the primitive
Outcomes(calls) ==
    [i \in 1 .. Len(calls) |->
        [step |-> calls[i].step, args |-> calls[i].args,
         failed |-> calls[i].failed]]

\* the value an entry point returns after the log call of the recorded update
ReturnOf(r) ==
    RETURN_FUSE_ERRNO(r.sysErr,
                      IF lastApply.errnoOut = lastApply.errnoSet
                        THEN r.errno ELSE lastApply.errnoOut)

\* C10: path-based and handle-based updates are equivalent. On the request,
\* the native outcomes and the errno of the recorded update, both entry points
\* attempt the same fields with the same arguments and return the same value,
\* which are those of the recorded update; they differ in the primitive used.
C10_PathHandleEquivalent ==
    lastApply.called =>
        LET uninit == lastApply.indeterminate
            byPath == SetattrX(theAttributes, nativeFails, uninit,
                               lastApply.errnoIn)
            byHandle == FSetattrX(theAttributes, nativeFails, uninit,
                                  lastApply.errnoIn)
        IN  /\ Outcomes(byPath.calls) = Outcomes(byHandle.calls)
            /\ Outcomes(lastApply.calls) = Outcomes(byPath.calls)
            /\ ReturnOf(byPath) = ReturnOf(byHandle)
            /\ ret = ReturnOf(byHandle)
            /\ \A i \in 1 .. Len(byPath.calls) :
                  byPath.calls[i].fn = PathPrimitive(byPath.calls[i].step)
            /\ \A i \in 1 .. Len(byHandle.calls) :
                  byHandle.calls[i].fn = HandlePrimitive(byHandle.calls[i].step)

C10_Witness ==
    /\ lastApply.called
    /\ lastApply.op = "setattr_x"
    /\ StepSeq(lastApply.calls) = <<"mode", "own", "size", "chgtime">>
    /\ lastApply.calls[3].failed
    /\ ret = 0

-----------------------------------------------------------------------------
(* The forwarding operations of the dispatcher *)

\* fuse_file_info::fh as logfuse_open and logfuse_create set it
FileHandle(fd) == [kind |-> "file", fd |-> fd]

\* the descriptor open and dup hand out: the lowest one not in use
NewFd == CHOOSE fd \in FdIds \ fds : \A g \in FdIds \ fds : fd <= g

\* errno values a failing native call leaves
NativeErrnos == {ENOENT, EACCES}

\* the handlers made of one native call, one log call and RETURN_FUSE_ERRNO:
\* the native function called, whether it works on fileInfo->fh, and
\* whether it returns a byte count
Forwarders ==
    { [op |-> "getattr",     fn |-> "lstat",        onFd |-> FALSE, count |-> FALSE],
      [op |-> "readlink",    fn |-> "readlink",     onFd |-> FALSE, count |-> TRUE],
      [op |-> "mkdir",       fn |-> "mkdir",        onFd |-> FALSE, count |-> FALSE],
      [op |-> "unlink",      fn |-> "unlink",       onFd |-> FALSE, count |-> FALSE],
      [op |-> "rmdir",       fn |-> "rmdir",        onFd |-> FALSE, count |-> FALSE],
      [op |-> "symlink",     fn |-> "symlink",      onFd |-> FALSE, count |-> FALSE],
      [op |-> "rename",      fn |-> "rename",       onFd |-> FALSE, count |-> FALSE],
      [op |-> "link",        fn |-> "link",         onFd |-> FALSE, count |-> FALSE],
      [op |-> "chmod",       fn |-> "chmod",        onFd |-> FALSE, count |-> FALSE],
      [op |-> "chown",       fn |-> "chown",        onFd |-> FALSE, count |-> FALSE],
      [op |-> "truncate",    fn |-> "truncate",     onFd |-> FALSE, count |-> FALSE],
      [op |-> "read",        fn |-> "pread",        onFd |-> TRUE,  count |-> TRUE],
      [op |-> "write",       fn |-> "pwrite",       onFd |-> TRUE,  count |-> TRUE],
      [op |-> "statfs",      fn |-> "statvfs",      onFd |-> FALSE, count |-> FALSE],
      [op |-> "fsync",       fn |-> "fsync",        onFd |-> TRUE,  count |-> FALSE],
      [op |-> "setxattr",    fn |-> "setxattr",     onFd |-> FALSE, count |-> FALSE],
      [op |-> "getxattr",    fn |-> "getxattr",     onFd |-> FALSE, count |-> TRUE],
      [op |-> "listxattr",   fn |-> "listxattr",    onFd |-> FALSE, count |-> TRUE],
      [op |-> "removexattr", fn |-> "removexattr",  onFd |-> FALSE, count |-> FALSE],
      [op |-> "access",      fn |-> "access",       onFd |-> FALSE, count |-> FALSE],
      [op |-> "ftruncate",   fn |-> "ftruncate",    onFd |-> TRUE,  count |-> FALSE],
      [op |-> "fgetattr",    fn |-> "fstat",        onFd |-> TRUE,  count |-> FALSE],
      [op |-> "lock",        fn |-> "fcntl",        onFd |-> TRUE,  count |-> FALSE],
      [op |-> "utimens",     fn |-> "setattrlist",  onFd |-> FALSE, count |-> FALSE],
      [op |-> "flock",       fn |-> "flock",        onFd |-> TRUE,  count |-> FALSE],
      [op |-> "exchange",    fn |-> "exchangedata", onFd |-> FALSE, count |-> FALSE],
      [op |-> "getxtimes",   fn |-> "getattrlist",  onFd |-> FALSE, count |-> FALSE],
      [op |-> "setbkuptime", fn |-> "setattrlist",  onFd |-> FALSE, count |-> FALSE],
      [op |-> "setchgtime",  fn |-> "setattrlist",  onFd |-> FALSE, count |-> FALSE],
      [op |-> "setcrtime",   fn |-> "setattrlist",  onFd |-> FALSE, count |-> FALSE],
      [op |-> "chflags",     fn |-> "lchflags",     onFd |-> FALSE, count |-> FALSE] }

\* a byte count a native call returns
SomeBytes == 3

\* what a native call returns and the errno it leaves: -1 with errno set,
\* or a result with errno untouched
NativeOutcomes(results) ==
    {[sysErr |-> -1, errno |-> e] : e \in NativeErrnos}
        \cup {[sysErr |-> r, errno |-> errno] : r \in results}

\* what a forwarder's native call can return when it succeeds
NativeResults(f) == IF f.count THEN {0, SomeBytes} ELSE {0}

\* operations on a path are dispatched without a fuse_file_info
NoSlot == 0

\* the tail every handler shares: the log call, then the translated return
Forwarded(op, h, arg, calls, sysErr, eSet) ==
    \E eLog \in logfuse_log(eSet) :
        /\ errno' = eLog
        /\ ret' = RETURN_FUSE_ERRNO(sysErr, eLog)
        /\ lastOp' = [op |-> op, slot |-> h, arg |-> arg, calls |-> calls,
                      logs |-> 1, sysErr |-> sysErr, errnoSet |-> eSet,
                      before |-> IF h = NoSlot THEN NoHandle ELSE fh[h]]

logfuse_forward(f, h) ==
    /\ IF f.onFd THEN h \in slots /\ fh[h].kind = "file" ELSE h = NoSlot
    /\ \E o \in NativeOutcomes(NativeResults(f)) :
          Forwarded(f.op, h, {}, <<f.fn>>, o.sysErr, o.errno)
    /\ UNCHANGED <<dirVars, attrVars, fds>>

\* the native call logfuse_mknod makes for the mode it is given
Mut_MknodCalls(isFifo) == IF isFifo THEN <<"mkfifo", "mknod">> ELSE <<"mknod">>

MknodCalls(isFifo) == IF isFifo THEN <<"mkfifo">> ELSE <<"mknod">>

logfuse_mknod(isFifo) ==
    /\ \E o \in NativeOutcomes({0}) :
          Forwarded("mknod", NoSlot,
                    IF isFifo THEN {"S_IFIFO"} ELSE {"S_IFCHR"},
                    MknodCalls(isFifo), o.sysErr, o.errno)
    /\ UNCHANGED <<dirVars, attrVars, fds>>

\* open and create: the descriptor is stored only when open returned one; the
\* failure is reported from errno as it is after the log call
StoreFd(h, fd) == IF fd = -1 THEN fh ELSE [fh EXCEPT ![h] = FileHandle(fd)]

OpenFile(op, h) ==
    /\ fh[h] = NoHandle
    /\ \E o \in NativeOutcomes(IF FdIds \ fds = {} THEN {} ELSE {NewFd}) :
       \E eLog \in logfuse_log(o.errno) :
          /\ fds' = IF o.sysErr = -1 THEN fds ELSE fds \cup {o.sysErr}
          /\ errno' = eLog
          /\ ret' = IF o.sysErr = -1 THEN -eLog ELSE 0
          /\ fh' = StoreFd(h, o.sysErr)
          /\ lastOp' = [op |-> op, slot |-> h, arg |-> {},
                        calls |-> <<"open">>, logs |-> 1, sysErr |-> o.sysErr,
                        errnoSet |-> o.errno, before |-> fh[h]]
    /\ UNCHANGED <<nEntries, slots, streams, prevRead, lastRead, paged,
                   traced, alone, attrVars>>

logfuse_open(h) == OpenFile("open", h)

logfuse_create(h) == OpenFile("create", h)

\* dup(fd): one more descriptor, newFd, for the same open file
dup(open, newFd) == open \cup {newFd}

\* close(fd): the descriptor is released; closing -1 releases nothing
close(open, fd) == open \ {fd}

\* release: close(fileInfo->fh); the descriptor is gone even when close
\* reports an error
logfuse_release(h) ==
    /\ fh[h].kind = "file"
    /\ fds' = close(fds, fh[h].fd)
    /\ fh' = [fh EXCEPT ![h] = NoHandle]
    /\ \E o \in NativeOutcomes({0}) :
          Forwarded("release", h, {}, <<"close">>, o.sysErr, o.errno)
    /\ UNCHANGED <<nEntries, slots, streams, prevRead, lastRead, paged,
                   traced, alone, attrVars>>

\* flush: close(dup(fileInfo->fh)); a failed dup hands -1 to close, which
\* fails with EBADF
Mut_FlushCloses(stored, dupFd) == stored

\* the descriptor flush hands to close: what dup returned
FlushCloses(stored, dupFd) == dupFd

\* the log call and return of flush
FlushDone(h, dupFd, closed, sysErr, eSet) ==
    \E eLog \in logfuse_log(eSet) :
        /\ errno' = eLog
        /\ ret' = RETURN_FUSE_ERRNO(sysErr, eLog)
        /\ lastOp' = [op |-> "flush", slot |-> h, arg |-> {},
                      calls |-> <<"dup", "close">>, logs |-> 1,
                      sysErr |-> sysErr, errnoSet |-> eSet,
                      before |-> fh[h], dupFd |-> dupFd, closed |-> closed,
                      fdsBefore |-> fds]

logfuse_flush(h) ==
    /\ fh[h].kind = "file"
    /\ \/ \* dup returns a new descriptor, which is closed
          /\ FdIds \ fds # {}
          /\ \E dupFd \in {NewFd} :
             \E closed \in {FlushCloses(fh[h].fd, dupFd)} :
             \E o \in NativeOutcomes({0}) :
                /\ fds' = close(dup(fds, dupFd), closed)
                /\ FlushDone(h, dupFd, closed, o.sysErr, o.errno)
       \/ \* dup fails
          \E closed \in {FlushCloses(fh[h].fd, -1)} :
             /\ fds' = close(fds, closed)
             /\ FlushDone(h, -1, closed, -1, EBADF)
    /\ UNCHANGED <<dirVars, attrVars>>

\* fallocate: modes without PREALLOCATE are refused before anything is called
\* or logged
ModeBits == {"PREALLOCATE", "ALLOCATECONTIG", "ALLOCATEALL"}

logfuse_fallocate(h, mode) ==
    /\ fh[h].kind = "file"
    /\ IF "PREALLOCATE" \notin mode
         THEN /\ ret' = -ENOTSUP
              /\ errno' = errno
              /\ lastOp' = [op |-> "fallocate", slot |-> h, arg |-> mode,
                            calls |-> <<>>, logs |-> 0, sysErr |-> 0,
                            errnoSet |-> errno, before |-> fh[h]]
         ELSE \E o \in NativeOutcomes({0}) :
                 Forwarded("fallocate", h, mode, <<"fcntl">>, o.sysErr,
                           o.errno)
    /\ UNCHANGED <<dirVars, attrVars, fds>>

\* the handlers that only log and return a fixed code
FixedReturn == [ioctl |-> -ENOMEM, poll |-> -ENOMEM, setvolname |-> -EACCES]

Mut_Fixed(op, h) ==
    /\ \E eLog \in logfuse_log(errno) : errno' = eLog
    /\ ret' = IF op = "poll" THEN -ENOTSUP ELSE FixedReturn[op]
    /\ fh' = [g \in Handles |-> NoHandle]
    /\ lastOp' = [op |-> op, slot |-> h, arg |-> {}, calls |-> <<>>,
                  logs |-> 1, sysErr |-> 0, errnoSet |-> errno,
                  before |-> IF h = NoSlot THEN NoHandle ELSE fh[h]]
    /\ UNCHANGED <<nEntries, slots, streams, prevRead, lastRead, paged,
                   traced, alone, attrVars, fds>>

Fixed(op, h) ==
    /\ \E eLog \in logfuse_log(errno) : errno' = eLog
    /\ ret' = FixedReturn[op]
    /\ lastOp' = [op |-> op, slot |-> h, arg |-> {}, calls |-> <<>>,
                  logs |-> 1, sysErr |-> 0, errnoSet |-> errno,
                  before |-> IF h = NoSlot THEN NoHandle ELSE fh[h]]
    /\ UNCHANGED <<dirVars, attrVars, fds>>

logfuse_ioctl(h) == Fixed("ioctl", h)

logfuse_poll(h) == Fixed("poll", h)

logfuse_setvolname == Fixed("setvolname", NoSlot)

InitFile ==
    /\ nEntries = 0
    /\ slots = Handles
    /\ fh = [h \in Handles |-> NoHandle]
    /\ streams = [d \in StreamIds |-> [open |-> FALSE, pos |-> 0]]
    /\ errno = NoErrno
    /\ ret = 0
    /\ prevRead = [h \in Handles |-> NoRead]
    /\ lastRead = [h \in Handles |-> NoRead]
    /\ paged = [h \in Handles |-> NewPaged]
    /\ theAttributes = {}
    /\ nativeFails = {}
    /\ applied = {}
    /\ lastApply = NoApply
    /\ traced = {}
    /\ alone = [h \in Handles |-> NoAlone]
    /\ fds = {}
    /\ lastOp = NoOp

NextFile ==
    \/ \E h \in slots : logfuse_open(h)
    \/ \E h \in slots : logfuse_create(h)
    \/ \E h \in slots : logfuse_release(h)
    \/ \E h \in slots : logfuse_flush(h)
    \/ \E f \in Forwarders : \E h \in slots \cup {NoSlot} : logfuse_forward(f, h)
    \/ \E isFifo \in BOOLEAN : logfuse_mknod(isFifo)
    \/ \E h \in slots : \E mode \in SUBSET ModeBits : logfuse_fallocate(h, mode)
    \/ \E h \in slots : logfuse_ioctl(h)
    \/ \E h \in slots : logfuse_poll(h)
    \/ logfuse_setvolname
    \/ \E h \in slots : logfuse_opendir(h)
    \/ \E h \in slots : logfuse_releasedir(h)

SpecFile == InitFile /\ [][NextFile]_vars

-----------------------------------------------------------------------------
(* Properties of the cursors of several handles *)

\* the slots whose cursor reads stream d
Owners(d) == {h \in Handles : fh[h].kind = "dir" /\ fh[h].dir = d}

\* C14: over any interleaving of opendir, readdir and releasedir on the
\* handle slots, every open stream is owned by exactly one live cursor and
\* every live cursor's stream is open; releasedir closes a stream that was
\* open, leaves it closed with no cursor on its slot, so that it is closed
\* exactly once, and returns 0 whether or not closedir reported a failure
C14_CursorLifecycle ==
    /\ \A d \in StreamIds : streams[d].open => Cardinality(Owners(d)) = 1
    /\ \A h \in Handles : fh[h].kind = "dir" => streams[fh[h].dir].open
    /\ lastOp.op = "releasedir" =>
          /\ lastOp.wasOpen
          /\ ~streams[lastOp.dir].open
          /\ Owners(lastOp.dir) = {}
          /\ fh[lastOp.slot] = NoHandle
          /\ ret = 0

\* a releasedir whose closedir failed, while the other slot's cursor lives on
C14_Witness ==
    /\ lastOp.op = "releasedir"
    /\ lastOp.failed
    /\ ret = 0
    /\ \E h \in Handles : fh[h].kind = "dir"

\* C16: with the operations of two handles interleaved, every handle's
\* cursor and stream position are what they would be had the handle been
\* used alone, and every readdir emits the entries and reaches the stop it
\* would have alone
C16_CrossHandleIndependence ==
    /\ \A h \in slots :
          /\ fh[h] = alone[h].info
          /\ fh[h].kind = "dir" => streams[fh[h].dir].pos = alone[h].pos
    /\ lastOp.op = "readdir" =>
          /\ lastOp.emitted = lastOp.emittedAlone
          /\ lastOp.stopped = lastOp.stoppedAlone
          /\ ret = 0

\* a readdir that emitted entries while the other handle's cursor, at another
\* offset, holds a cached entry
C16_Witness ==
    /\ lastOp.op = "readdir"
    /\ Len(lastOp.emitted) > 0
    /\ \E h \in slots \ {lastOp.slot} :
          /\ fh[h].kind = "dir"
          /\ fh[h].entry # NoEntry
          /\ fh[h].offset # fh[lastOp.slot].offset

\* C19: logfuse_opendir returns 0 exactly when opendir and malloc both
\* succeeded, and then the slot holds a cursor on an open stream at its start,
\* with offset 0 and no cached entry; when opendir failed it returns the
\* negated errno of opendir and stores no handle; when malloc failed it
\* returns -ENOMEM and stores no handle; no stream is open without a cursor
C19_OpendirOutcomes ==
    /\ \A d \in StreamIds : streams[d].open => Owners(d) # {}
    /\ lastOp.op = "opendir" =>
          /\ ret = 0 <=> (lastOp.opened /\ lastOp.malloc)
          /\ ret = 0 =>
                /\ fh[lastOp.slot].kind = "dir"
                /\ fh[lastOp.slot].entry = NoEntry
                /\ fh[lastOp.slot].offset = 0
                /\ streams[fh[lastOp.slot].dir] = [open |-> TRUE, pos |-> 0]
          /\ ~lastOp.opened =>
                ret = -lastOp.sysErr /\ fh[lastOp.slot] = NoHandle
          /\ (lastOp.opened /\ ~lastOp.malloc) =>
                ret = -ENOMEM /\ fh[lastOp.slot] = NoHandle

\* malloc failed in an opendir made while the other slot's cursor is live
C19_Witness ==
    /\ lastOp.op = "opendir"
    /\ lastOp.opened
    /\ ~lastOp.malloc
    /\ ret = -ENOMEM
    /\ \E h \in Handles : fh[h].kind = "dir"

-----------------------------------------------------------------------------
(* Properties of one logfuse_readdir call *)

\* cursor.offset once the entries a call's filler took are accounted for
OffsetAfter(lr) ==
    IF Len(Accepted(lr)) = 0
      THEN lr.offset
      ELSE Accepted(lr)[Len(Accepted(lr))].nextOffset

\* C17: when filler stops a readdir, the refused entry is left cached and
\* cursor.offset is the offset from before that entry was offered; when no
\* entry is refused, no entry is cached and cursor.offset is the next offset
\* handed to filler with the last entry it took
C17_ReadStep ==
    \A h \in traced :
        (fh[h].kind = "dir" /\ lastRead[h].called) =>
            LET lr == lastRead[h]
            IN  /\ fh[h].offset = OffsetAfter(lr)
                /\ lr.stopped =>
                      fh[h].entry = lr.offered[Len(lr.offered)].entry
                /\ ~lr.stopped => fh[h].entry = NoEntry

\* filler took entries and then refused one
C17_Witness ==
    \E h \in traced :
        /\ fh[h].kind = "dir"
        /\ lastRead[h].called
        /\ lastRead[h].stopped
        /\ Len(lastRead[h].offered) > 1
        /\ fh[h].entry # NoEntry
        /\ fh[h].offset # lastRead[h].offset

\* the entries of the stream from position pos on, as many as were offered
FromStream(lr, pos) ==
    \A i \in 1 .. Len(lr.offered) : lr.offered[i].entry = pos + i

\* C18: a readdir whose offset differs from cursor.offset repositions: what
\* it offers to filler are the stream's entries from the requested position
\* on, not the entry a stopped readdir left cached, and when it offers nothing
\* the cursor is at the requested offset with no cached entry; a readdir at
\* cursor.offset offers the cached entry first and then the stream's next ones
C18_RepositionDropsCached ==
    (lastOp.op = "readdir" /\ lastOp.slot \in traced) =>
        LET h  == lastOp.slot
            lr == lastRead[h]
        IN  /\ lr.sought => FromStream(lr, seekdir(lr.offset))
            /\ (lr.sought /\ lr.offered = <<>>) =>
                  fh[h].entry = NoEntry /\ fh[h].offset = lr.offset
            /\ (~lr.sought /\ lastOp.cached # NoEntry) =>
                  /\ Len(lr.offered) > 0
                  /\ FromStream(lr, lastOp.cached - 1)

\* a repositioning readdir on a cursor with a cached entry offered another one
C18_Witness ==
    /\ lastOp.op = "readdir"
    /\ lastOp.slot \in traced
    /\ lastRead[lastOp.slot].sought
    /\ lastOp.cached # NoEntry
    /\ Len(lastRead[lastOp.slot].offered) > 0
    /\ lastRead[lastOp.slot].offered[1].entry # lastOp.cached

-----------------------------------------------------------------------------
(* Properties of the forwarding operations *)

\* the operations that end in RETURN_FUSE_ERRNO
Translated ==
    {f.op : f \in Forwarders} \cup {"mknod", "release", "flush", "fallocate"}

\* C11 as stated: an operation that ends in RETURN_FUSE_ERRNO returns -E when
\* its native call failed, E being the errno that call set, also with the log
\* call made in between, and returns the native result unchanged otherwise
C11_ErrorConvention ==
    (lastOp.op \in Translated /\ lastOp.calls # <<>>) =>
        /\ lastOp.sysErr = -1 => ret = -lastOp.errnoSet
        /\ lastOp.sysErr >= 0 => ret = lastOp.sysErr

Stubs == {"ioctl", "poll"}

\* C12: logfuse_ioctl and logfuse_poll return the same fixed negative code,
\* make no native call, and leave every file handle, descriptor, directory
\* cursor and stream as it was
C12_Stubs ==
    /\ [](lastOp.op \in Stubs =>
             /\ ret = FixedReturn.ioctl
             /\ ret = FixedReturn.poll
             /\ ret < 0
             /\ lastOp.calls = <<>>)
    /\ [][lastOp'.op \in Stubs => UNCHANGED <<fh, fds, streams, alone>>]_vars

\* poll answered while one slot holds a descriptor and the other a cursor
C12_Witness ==
    /\ lastOp.op = "poll"
    /\ ret = -ENOMEM
    /\ \E h \in slots : fh[h].kind = "file"
    /\ \E h \in slots : fh[h].kind = "dir"

\* C13 as stated: open and create return 0 and store the descriptor exactly
\* when the native open succeeded; when it failed they return the negated
\* errno of the open call and leave the handle slot as it was
C13_OpenContract ==
    lastOp.op \in {"open", "create"} =>
        /\ lastOp.sysErr # -1 <=>
              (ret = 0 /\ fh[lastOp.slot] = FileHandle(lastOp.sysErr))
        /\ lastOp.sysErr = -1 =>
              (ret = -lastOp.errnoSet /\ fh[lastOp.slot] = lastOp.before)

\* the operations the dispatcher forwards itself: all but the cursor
\* manager's, the update engine's and the two stubs
Forwarding ==
    Translated \cup {"open", "create", "setvolname"}

\* C15 as stated: every forwarding operation, flush, mknod and fallocate
\* included, makes exactly one native call and emits exactly one trace record
C15_SingleCall ==
    lastOp.op \in Forwarding =>
        Len(lastOp.calls) = 1 /\ lastOp.logs = 1

\* C15: a forwarding operation makes exactly one native call and emits one
\* trace record, mknod calling mkfifo for a FIFO and mknod otherwise, with
\* three exceptions: flush makes two calls, dup and then close; fallocate
\* without PREALLOCATE in its mode makes no call, emits no record and returns
\* -ENOTSUP; setvolname makes no call and emits one record
C15_NativeCalls ==
    lastOp.op \in Forwarding =>
        CASE lastOp.op = "flush" ->
                lastOp.calls = <<"dup", "close">> /\ lastOp.logs = 1
          [] lastOp.op = "fallocate" ->
                IF "PREALLOCATE" \in lastOp.arg
                  THEN lastOp.calls = <<"fcntl">> /\ lastOp.logs = 1
                  ELSE /\ lastOp.calls = <<>>
                       /\ lastOp.logs = 0
                       /\ ret = -ENOTSUP
          [] lastOp.op = "setvolname" ->
                lastOp.calls = <<>> /\ lastOp.logs = 1
          [] lastOp.op = "mknod" ->
                /\ lastOp.logs = 1
                /\ lastOp.calls =
                      <<IF "S_IFIFO" \in lastOp.arg THEN "mkfifo" ELSE "mknod">>
          [] OTHER ->
                Len(lastOp.calls) = 1 /\ lastOp.logs = 1

\* a flush that made its two calls and one that was handed a FIFO mode
C15_Witness ==
    \/ lastOp.op = "flush" /\ Len(lastOp.calls) = 2 /\ ret = 0
    \/ lastOp.op = "mknod" /\ "S_IFIFO" \in lastOp.arg

-----------------------------------------------------------------------------
(* Properties of the ownership step *)

\* the ownership calls of an update
OwnCalls(calls) == SelectSeq(calls, LAMBDA c : c.step = "own")

\* the arguments the ownership call is to carry for a selector
OwnArgs(attrs) ==
    <<IF "UID" \in attrs THEN Request.uid ELSE -1,
      IF "GID" \in attrs THEN Request.gid ELSE -1>>

ModeFailed(calls) == \E i \in 1 .. Len(calls) :
                        calls[i].step = "mode" /\ calls[i].failed

\* C20 as stated: with uid and/or gid selected exactly one ownership call is
\* made, with the requested value for a selected half and -1 for the other;
\* with neither selected no ownership call is made
C20_OwnershipCall ==
    lastApply.called =>
        IF {"UID", "GID"} \cap theAttributes # {}
          THEN /\ Len(OwnCalls(lastApply.calls)) = 1
               /\ OwnCalls(lastApply.calls)[1].args = OwnArgs(theAttributes)
          ELSE OwnCalls(lastApply.calls) = <<>>

\* C20: with uid and/or gid selected, exactly one ownership call is made, with
\* the requested value for a selected half and -1 for the other, unless the
\* mode call was made and failed; then, and with neither selected, no
\* ownership call is made
C20_OwnershipCallUnlessModeFailed ==
    lastApply.called =>
        IF {"UID", "GID"} \cap theAttributes # {}
           /\ ~ModeFailed(lastApply.calls)
          THEN /\ Len(OwnCalls(lastApply.calls)) = 1
               /\ OwnCalls(lastApply.calls)[1].args = OwnArgs(theAttributes)
          ELSE OwnCalls(lastApply.calls) = <<>>

\* gid alone selected next to a mode that was set: the call carries -1 for uid
C20_Witness ==
    /\ lastApply.called
    /\ {"UID", "GID", "MODE"} \cap theAttributes = {"GID", "MODE"}
    /\ ~ModeFailed(lastApply.calls)
    /\ Len(OwnCalls(lastApply.calls)) = 1
    /\ OwnCalls(lastApply.calls)[1].args = <<-1, Request.gid>>

-----------------------------------------------------------------------------
(* Properties of flush and release *)

\* C21: the descriptor stored in a handle slot is open from open/create to
\* release; a flush closes the descriptor dup returned and no other, leaves
\* the slot and the set of open descriptors as they were, and a stored
\* descriptor leaves the set of open descriptors only in the release of its
\* slot
C21_FlushKeepsHandle ==
    /\ [](/\ \A h \in slots : fh[h].kind = "file" => fh[h].fd \in fds
          /\ lastOp.op = "flush" =>
                /\ lastOp.closed = lastOp.dupFd
                /\ lastOp.closed # lastOp.before.fd
                /\ fh[lastOp.slot] = lastOp.before
                /\ fds = lastOp.fdsBefore)
    /\ [][\A h \in slots :
             (fh[h].kind = "file" /\ fh[h].fd \in fds /\ fh[h].fd \notin fds')
                => (lastOp'.op = "release" /\ lastOp'.slot = h)]_vars

\* a successful flush of one of two open files
C21_Witness ==
    /\ lastOp.op = "flush"
    /\ lastOp.dupFd # -1
    /\ ret = 0
    /\ \A h \in slots : fh[h].kind = "file"
    /\ Cardinality(fds) = 2

-----------------------------------------------------------------------------
(* Properties of the empty selector *)

\* C22 as stated: called with no selector bit set, logfuse_setattr_x and
\* logfuse_fsetattr_x make no native call and return 0, whatever an earlier
\* call left behind
C22_EmptySelector ==
    (lastApply.called /\ theAttributes = {}) =>
        lastApply.calls = <<>> /\ ret = 0

====
